---- MODULE Spec2Model ----
(***************************************************************************)
(* Model of the flashcard application of src/src/App.tsx: the spaced-      *)
(* repetition scheduler scheduleNext, the session queue built by           *)
(* startLearn and the session handlers gradeLearn / resetLearn, together   *)
(* with the card store they write to.                                      *)
(*                                                                         *)
(* Numbers.  ef is a JavaScript double that the code only ever moves in    *)
(* steps of 0.01; it is kept here as an integer number of hundredths       *)
(* (2.3 is 230, the clamp range [1.3, 3.0] is [130, 300]) and the          *)
(* multipliers 1.15 / 1.35 / 1.7 likewise (115 / 135 / 170), so the        *)
(* product interval * newEf * mult is an integer number of                 *)
(* ten-thousandths.  The arithmetic is exact.  IEEE doubles can land one   *)
(* ulp under an exact .5 tie (5 * 2.0 * 1.15 rounds to 11, not 12); no     *)
(* ease factor and interval explored here meets such a tie, so on them     *)
(* the exact result is the code's result.                                  *)
(*                                                                         *)
(* The page.  Every handler is modelled with the condition under which     *)
(* the control that calls it is rendered.  The tab (mode) is left out: it  *)
(* only decides which panel is drawn, setMode changes nothing else, and    *)
(* every tab can be opened at any time.                                    *)
(*                                                                         *)
(* Timestamps.  Date.now() is milliseconds since the epoch.  A timestamp   *)
(* is kept as [day, ms] standing for day * 86,400,000 + ms with            *)
(* 0 <= ms < 86,400,000, so that "now + interval * 24*60*60*1000" adds     *)
(* interval to the day component and no value outgrows TLC's integers.     *)
(*                                                                         *)
(* Specifications.  Spec is the Learn panel on a store of two decks;       *)
(* SpecDeck adds "Add card" and "Reset progress" on a store of one deck;   *)
(* SpecStart starts sessions on decks of many shapes; SpecSched and        *)
(* SpecLoose are single calls of scheduleNext, on well-formed cards with   *)
(* the four grades and on cards with missing fields with any grade.        *)
(* SpecManage has the Learn panel with "Edit" and "Delete" of the Manage   *)
(* panel on one deck; SpecRun runs sessions to their end on decks of       *)
(* several sizes and SpecFinish is SpecRun with weak fairness of the       *)
(* learner's two steps, Reveal and GradeLearn.                             *)
(*                                                                         *)
(* The other programs.  src/unnamed holds three more programs, each with   *)
(* its own state: the one-question-at-a-time quiz (SpecQuiz, with          *)
(* SpecNormalize for single calls of its normalizeQuestionSet), the        *)
(* retry-loop quiz session (SpecRetry) and the quiz session of part_001    *)
(* (SpecPlain); SpecLoad is a single call of their loadSession on stored   *)
(* data.                                                                   *)
(***************************************************************************)
EXTENDS Integers, Sequences, FiniteSets, TLC

VARIABLES
  decks,           \* AppState.decks: sequence of [id, cards]
  selectedDeckId,  \* AppState.selectedDeckId
  learnSession,    \* LearnSession | null
  clock,           \* what Date.now() returns at this moment
  gradeCount,      \* grading events so far (bounds the behaviours explored)
  call,            \* one call of a function on its own: its input and its result
  againsSince,     \* history: for every card identifier given out so far, the
                   \* Again grades the card has received since it was created
                   \* or its progress was last reset
  quiz,            \* the one-question-at-a-time quiz of src/unnamed/part_000
  session          \* the SessionState of a quiz-session app (src/unnamed)

vars ==
  <<decks, selectedDeckId, learnSession, clock, gradeCount, call, againsSince, quiz, session>>

---------------------------------------------------------------------------
(* Bounds of the model *)

\* the clock advances by at most this many whole days
MaxDays == 1
\* and by at most this many milliseconds while scheduleNext runs
MaxMs == 1
\* grading events per behaviour of the application
MaxGrades == 2
\* arrays up to this length are shuffled with every outcome of Math.random()
MaxFullShuffle == 3

---------------------------------------------------------------------------
(* Values *)

\* JavaScript null / undefined in a field that should hold a number
undefined == 0 - 1000000

\* typeof x === "number"
IsNumber(x) == x # undefined

Ts(d, m) == [day |-> d, ms |-> m]

\* lastReviewed: null
null == Ts(0 - 1, 0)

Epoch == Ts(0, 0)

\* a <= b on timestamps
TsLeq(a, b) == a.day < b.day \/ (a.day = b.day /\ a.ms <= b.ms)

\* the days left out of the sum
TsAddDays_none(t, n) == t

\* t + n * 24 * 60 * 60 * 1000
TsAddDays(t, n) == Ts(t.day + n, t.ms)

\* t + n milliseconds, n small
TsAddMs(t, n) == Ts(t.day, t.ms + n)

Range(f) == { f[x] : x \in DOMAIN f }

Max(a, b) == IF a >= b THEN a ELSE b
Min(a, b) == IF a <= b THEN a ELSE b

\* Math.round on a number of ten-thousandths: floor(x + 0.5)
MathRound(p) == (p + 5000) \div 10000

---------------------------------------------------------------------------
(* Pure functions *)

\* clamp with the upper bound forgotten
clamp_noUpper(n, a, b) == Max(a, n)

clamp(n, a, b) == Max(a, Min(b, n))

\* newEfOf with Good given the bonus of Easy
newEfOf_goodAsEasy(ef, grade) ==
  IF grade = 1 THEN clamp(ef - 5, 130, 300)
  ELSE IF grade = 2 THEN clamp(ef + 8, 130, 300)
  ELSE IF grade = 3 THEN clamp(ef + 8, 130, 300)
  ELSE ef

\* lines 161-163: the ease factor after a Hard / Good / Easy grade
newEfOf(ef, grade) ==
  IF grade = 1 THEN clamp(ef - 5, 130, 300)
  ELSE IF grade = 2 THEN clamp(ef + 2, 130, 300)
  ELSE IF grade = 3 THEN clamp(ef + 8, 130, 300)
  ELSE ef

\* the multipliers of Hard and Easy exchanged
multOf_swapped(grade) == IF grade = 1 THEN 170 ELSE IF grade = 2 THEN 135 ELSE 115

\* line 169
multOf(grade) == IF grade = 1 THEN 115 ELSE IF grade = 2 THEN 135 ELSE 170

\* lines 165-171: the interval in days after a Hard / Good / Easy grade
newIntervalOf(newReps, grade, interval, newEf) ==
  IF newReps = 1 THEN 1
  ELSE IF newReps = 2 THEN (IF grade = 1 THEN 2 ELSE 3)
  ELSE Max(1, MathRound(interval * newEf * multOf(grade)))

\* the lapse count forgotten instead of carried over
lapsesOrZero_dropped(card) == 0

\* c.lapses || 0
lapsesOrZero(card) == IF IsNumber(card.lapses) THEN card.lapses ELSE 0

\* scheduleNext computing the interval from the ease factor it was given
\* instead of the one it has just computed
scheduleNext_oldEf(card, grade, now1, now2) ==
  LET ef       == IF IsNumber(card.ef) THEN card.ef ELSE 230
      reps     == IF IsNumber(card.reps) THEN card.reps ELSE 0
      interval == IF IsNumber(card.interval) THEN card.interval ELSE 0
  IN  IF grade = 0
      THEN [card EXCEPT
              !.reps = 0,
              !.interval = 0,
              !.due = now1,
              !.lapses = lapsesOrZero(card) + 1,
              !.ef = clamp(ef - 20, 130, 300),
              !.lastReviewed = now2]
      ELSE LET newReps     == reps + 1
               newEf       == newEfOf(ef, grade)
               newInterval == newIntervalOf(newReps, grade, interval, ef)
           IN  [card EXCEPT
                  !.reps = newReps,
                  !.interval = newInterval,
                  !.due = TsAddDays(now1, newInterval),
                  !.ef = newEf,
                  !.lastReviewed = now2]

\* The body of scheduleNext; now1 is what nowMs() returns at line 154 / 174,
\* now2 what it returns at line 178.
scheduleNext(card, grade, now1, now2) ==
  LET ef       == IF IsNumber(card.ef) THEN card.ef ELSE 230
      reps     == IF IsNumber(card.reps) THEN card.reps ELSE 0
      interval == IF IsNumber(card.interval) THEN card.interval ELSE 0
  IN  IF grade = 0
      THEN [card EXCEPT
              !.reps = 0,
              !.interval = 0,
              !.due = now1,
              !.lapses = lapsesOrZero(card) + 1,
              !.ef = clamp(ef - 20, 130, 300),
              !.lastReviewed = now2]
      ELSE LET newReps     == reps + 1
               newEf       == newEfOf(ef, grade)
               newInterval == newIntervalOf(newReps, grade, interval, newEf)
           IN  [card EXCEPT
                  !.reps = newReps,
                  !.interval = newInterval,
                  !.due = TsAddDays(now1, newInterval),
                  !.ef = newEf,
                  !.lastReviewed = now2]

---------------------------------------------------------------------------
(* The application state *)

\* no scheduleNext call on its own under way
NoCall == [pc |-> "none"]

\* learnSession === null
NoSession == [active |-> FALSE]

\* the quiz component / the quiz-session app is not part of the page modelled
NoQuiz == [app |-> "none"]
NoQuizSession == [app |-> "none"]

\* a card as addCard / defaultData create it at time now
NewCard(id, now) ==
  [id |-> id, term |-> id, definition |-> id, due |-> now, ef |-> 230, reps |-> 0,
   interval |-> 0, lapses |-> 0, lastReviewed |-> null]

\* the clock may move on between the two nowMs() calls of one scheduleNext
ClockDrift == { d \in 0 .. 1 : clock.ms + d <= MaxMs }

\* the cards of every deck of ds
AllCards(ds) == UNION { Range(ds[i].cards) : i \in 1 .. Len(ds) }

\* index in decks of the deck selectedDeck denotes, 0 for null:
\* decks.find((x) => x.id === state.selectedDeckId) ?? decks[0] ?? null
selectedDeck ==
  IF \E i \in 1 .. Len(decks) : decks[i].id = selectedDeckId
  THEN CHOOSE i \in 1 .. Len(decks) :
         /\ decks[i].id = selectedDeckId
         /\ \A k \in 1 .. i - 1 : decks[k].id # selectedDeckId
  ELSE IF Len(decks) > 0 THEN 1 ELSE 0

\* arr.filter(pred), pred given as the set of values passing it
RECURSIVE filter(_, _)
filter(arr, keep) ==
  IF arr = << >> THEN << >>
  ELSE IF Head(arr) \in keep THEN <<Head(arr)>> \o filter(Tail(arr), keep)
  ELSE filter(Tail(arr), keep)

\* c.due ?? 0
dueOrZero(c) == IF c.due = null THEN Epoch ELSE c.due

---------------------------------------------------------------------------
(* shuffleArray: Fisher-Yates, picks[i] being Math.floor(Math.random() * (i + 1))
   at loop index i (0-based positions, as in the code) *)

\* the loop with half of the swap: a[i] = a[j] without a[j] = a[i]
RECURSIVE shuffleLoop_halfSwap(_, _, _)
shuffleLoop_halfSwap(a, i, picks) ==
  IF i <= 0 THEN a
  ELSE shuffleLoop_halfSwap([a EXCEPT ![i + 1] = a[picks[i] + 1]], i - 1, picks)

shuffleArray_halfSwap(arr, picks) == shuffleLoop_halfSwap(arr, Len(arr) - 1, picks)

RECURSIVE shuffleLoop(_, _, _)
shuffleLoop(a, i, picks) ==
  IF i <= 0 THEN a
  ELSE shuffleLoop([a EXCEPT ![i + 1] = a[picks[i] + 1], ![picks[i] + 1] = a[i + 1]],
                   i - 1, picks)

shuffleArray(arr, picks) == shuffleLoop(arr, Len(arr) - 1, picks)

\* The outcomes of Math.random() explored for an array of n elements: every
\* one for short arrays, three streams (always lowest, always highest, always
\* the middle) for longer ones.
RandomPicks(n) ==
  IF n <= MaxFullShuffle
  THEN { f \in [1 .. n - 1 -> 0 .. n - 1] : \A i \in 1 .. n - 1 : f[i] <= i }
  ELSE { [i \in 1 .. n - 1 |-> 0], [i \in 1 .. n - 1 |-> i], [i \in 1 .. n - 1 |-> i \div 2] }

---------------------------------------------------------------------------
(* Learn session *)

\* .slice(0, 50)
SessionCap == 50

\* the cut left out
slice_none(arr, n) == arr

slice(arr, n) == SubSeq(arr, 1, Min(n, Len(arr)))

\* the due group chosen with (c.due ?? 0) < now
dueGroup_strict(cards, now) ==
  filter(cards, { c \in Range(cards) : ~TsLeq(now, dueOrZero(c)) })

\* line 577: cards.filter((c) => (c.due ?? 0) <= now)
dueGroup(cards, now) ==
  filter(cards, { c \in Range(cards) : TsLeq(dueOrZero(c), now) })

\* line 578: cards.filter((c) => (c.due ?? 0) > now)
notDueGroup(cards, now) ==
  filter(cards, { c \in Range(cards) : ~TsLeq(dueOrZero(c), now) })

\* startLearn's queue with the due group put last
buildQueue_notDueFirst(cards, now, picksDue, picksNotDue) ==
  LET due    == dueGroup(cards, now)
      notDue == notDueGroup(cards, now)
  IN  slice(shuffleArray(notDue, picksNotDue) \o shuffleArray(due, picksDue), SessionCap)

\* lines 577-579 of startLearn
buildQueue(cards, now, picksDue, picksNotDue) ==
  LET due    == dueGroup(cards, now)
      notDue == notDueGroup(cards, now)
  IN  slice(shuffleArray(due, picksDue) \o shuffleArray(notDue, picksNotDue), SessionCap)

\* the number of due / not-due cards of the selected deck at this moment
DueCount(cards, now) == Cardinality({ i \in 1 .. Len(cards) : TsLeq(dueOrZero(cards[i]), now) })

\* "Start session" (no session) and "Start another" (session complete) are the
\* buttons that call startLearn
StartButtonShown ==
  IF learnSession.active THEN learnSession.idx >= learnSession.total ELSE TRUE

startLearn(picksDue, picksNotDue) ==
  /\ selectedDeck # 0
  /\ LET now   == clock
         queue == buildQueue(decks[selectedDeck].cards, now, picksDue, picksNotDue)
     IN  learnSession' = [active |-> TRUE, startedAt |-> now, queue |-> queue, idx |-> 0,
                          flipped |-> FALSE, graded |-> 0, total |-> Len(queue)]
  /\ UNCHANGED <<decks, selectedDeckId, clock, gradeCount, call, againsSince, quiz, session>>

StartLearn ==
  /\ StartButtonShown
  /\ selectedDeck # 0
  /\ LET cards == decks[selectedDeck].cards
         nDue  == DueCount(cards, clock)
     IN  \E pd \in RandomPicks(nDue), pn \in RandomPicks(Len(cards) - nDue) :
            startLearn(pd, pn)

\* the learn card drawn for every session, complete or not
CardShown_always == learnSession.active

\* the learn card is on screen: a session that is not complete
CardShown ==
  IF learnSession.active THEN learnSession.idx < learnSession.total ELSE FALSE

\* "Reveal answer" rendered for every session with an unflipped card side,
\* a complete one too
RevealButtonShown_noCard ==
  IF learnSession.active THEN ~learnSession.flipped ELSE FALSE

\* "Reveal answer" is rendered while the card is not flipped
RevealButtonShown == CardShown /\ ~learnSession.flipped

Reveal ==
  /\ RevealButtonShown
  /\ learnSession' = [learnSession EXCEPT !.flipped = TRUE]
  /\ UNCHANGED <<decks, selectedDeckId, clock, gradeCount, call, againsSince, quiz, session>>

\* the grade buttons rendered whether or not the card is flipped
GradeButtonsShown_unflipped == CardShown

\* Again / Hard / Good / Easy are rendered once the card is flipped
GradeButtonsShown == CardShown /\ learnSession.flipped

\* { ...c, ...patch }
spread(c, patch) ==
  [f \in DOMAIN c \cup DOMAIN patch |-> IF f \in DOMAIN patch THEN patch[f] ELSE c[f]]

\* updateCard that adds the patch as a card when the deck has no card cardId
updateCard_upsert(deckId, cardId, patch) ==
  [i \in 1 .. Len(decks) |->
     IF decks[i].id = deckId
     THEN [decks[i] EXCEPT !.cards =
             IF \E k \in 1 .. Len(decks[i].cards) : decks[i].cards[k].id = cardId
             THEN [k \in 1 .. Len(decks[i].cards) |->
                     IF decks[i].cards[k].id = cardId
                     THEN spread(decks[i].cards[k], patch) ELSE decks[i].cards[k]]
             ELSE Append(decks[i].cards, patch)]
     ELSE decks[i]]

\* updateCard(deckId, cardId, patch) through updateDeck: the new decks
updateCard(deckId, cardId, patch) ==
  [i \in 1 .. Len(decks) |->
     IF decks[i].id = deckId
     THEN [decks[i] EXCEPT !.cards =
             [k \in 1 .. Len(decks[i].cards) |->
                IF decks[i].cards[k].id = cardId
                THEN spread(decks[i].cards[k], patch) ELSE decks[i].cards[k]]]
     ELSE decks[i]]

\* the session after a grade, with the graded card put back at the end
sessionAfterGrade_requeue(ls) ==
  [ls EXCEPT !.idx = ls.idx + 1, !.flipped = FALSE, !.graded = ls.graded + 1,
             !.queue = Append(ls.queue, ls.queue[ls.idx + 1]), !.total = ls.total + 1]

\* the session after a grade with the position left where it was
sessionAfterGrade_stay(ls) == [ls EXCEPT !.flipped = FALSE]

\* lines 598-601
sessionAfterGrade(ls) ==
  [ls EXCEPT !.idx = ls.idx + 1, !.flipped = FALSE, !.graded = ls.graded + 1]

\* gradeLearn(grade), the clock moving on by d ms between scheduleNext's two readings
gradeLearn(grade, d) ==
  /\ selectedDeck # 0 /\ learnSession.active
  /\ learnSession.idx + 1 \in 1 .. Len(learnSession.queue)
  /\ LET card    == learnSession.queue[learnSession.idx + 1]
         updated == scheduleNext(card, grade, clock, TsAddMs(clock, d))
     IN  decks' = updateCard(decks[selectedDeck].id, card.id, updated)
  /\ learnSession' = sessionAfterGrade(learnSession)
  /\ clock' = TsAddMs(clock, d)
  /\ gradeCount' = gradeCount + 1
  /\ LET id == learnSession.queue[learnSession.idx + 1].id
     IN  againsSince' = IF grade = 0 /\ id \in DOMAIN againsSince
                        THEN [againsSince EXCEPT ![id] = @ + 1]
                        ELSE againsSince
  /\ UNCHANGED <<selectedDeckId, call, quiz, session>>

GradeLearn ==
  /\ GradeButtonsShown
  /\ gradeCount < MaxGrades
  /\ \E g \in 0 .. 3, d \in ClockDrift : gradeLearn(g, d)

\* "End session" offered only while a card is on screen
EndButtonShown_inProgress == CardShown

\* "End session" is rendered for every session, "Close" beside it for a
\* complete one
EndButtonShown == learnSession.active

\* resetLearn through "End session" / "Close"
ResetLearn ==
  /\ EndButtonShown
  /\ learnSession' = NoSession
  /\ UNCHANGED <<decks, selectedDeckId, clock, gradeCount, call, againsSince, quiz, session>>

---------------------------------------------------------------------------
(* The rest of the page *)

\* a deck button of the side bar
SelectDeck ==
  \E i \in 1 .. Len(decks) :
     /\ selectedDeckId' = decks[i].id
     /\ UNCHANGED <<decks, learnSession, clock, gradeCount, call, againsSince, quiz, session>>

\* uid(): an identifier no card has been given so far, here the least one
FreshId ==
  CHOOSE n \in 1 .. Cardinality(DOMAIN againsSince) + 1 :
     /\ n \notin DOMAIN againsSince
     /\ \A m \in 1 .. n - 1 : m \in DOMAIN againsSince

\* cards created in all, those of the stored state included
MaxCards == 2

\* addCard(deckId, term, definition): a fresh card put in front of the deck
addCard(deckId, id) ==
  [i \in 1 .. Len(decks) |->
     IF decks[i].id = deckId
     THEN [decks[i] EXCEPT !.cards = <<NewCard(id, clock)>> \o decks[i].cards]
     ELSE decks[i]]

\* "Add card", the form filled in, "Add": saveCard with no card being edited
AddCard ==
  /\ selectedDeck # 0
  /\ Cardinality(DOMAIN againsSince) < MaxCards
  /\ decks' = addCard(decks[selectedDeck].id, FreshId)
  /\ againsSince' = againsSince @@ (FreshId :> 0)
  /\ UNCHANGED <<selectedDeckId, learnSession, clock, gradeCount, call, quiz, session>>

\* resetCard with the interval left as it was
resetCard_keepInterval(c, now) ==
  [c EXCEPT !.due = now, !.ef = 230, !.reps = 0, !.lapses = 0, !.lastReviewed = null]

\* the card resetProgress makes of c, nowMs() returning now
resetCard(c, now) ==
  [c EXCEPT !.due = now, !.ef = 230, !.reps = 0, !.interval = 0, !.lapses = 0,
            !.lastReviewed = null]

\* resetProgress(deckId).  nowMs() is read for every card in turn; the
\* readings are taken here as one and the same instant.
resetProgress(deckId) ==
  [i \in 1 .. Len(decks) |->
     IF decks[i].id = deckId
     THEN [decks[i] EXCEPT !.cards =
             [k \in 1 .. Len(decks[i].cards) |-> resetCard(decks[i].cards[k], clock)]]
     ELSE decks[i]]

\* "Reset progress"
ResetProgress ==
  /\ selectedDeck # 0
  /\ decks' = resetProgress(decks[selectedDeck].id)
  /\ againsSince' =
       [id \in DOMAIN againsSince |->
          IF \E c \in Range(decks[selectedDeck].cards) : c.id = id
          THEN 0 ELSE againsSince[id]]
  /\ UNCHANGED <<selectedDeckId, learnSession, clock, gradeCount, call, quiz, session>>

\* what the card form holds when a card is saved with a text typed anew
EditedText == 100

\* "Edit" on a card of the Manage list, the form changed, "Save": saveCard
\* with editingCardId set
EditCard ==
  /\ selectedDeck # 0
  /\ \E k \in 1 .. Len(decks[selectedDeck].cards) :
        LET c == decks[selectedDeck].cards[k]
        IN  \E term \in {c.term, EditedText}, definition \in {c.definition, EditedText} :
               decks' = updateCard(decks[selectedDeck].id, c.id,
                                   [term |-> term, definition |-> definition])
  /\ UNCHANGED <<selectedDeckId, learnSession, clock, gradeCount, call, againsSince, quiz, session>>

\* deleteCard(deckId, cardId) through updateDeck: the new decks
deleteCard(deckId, cardId) ==
  [i \in 1 .. Len(decks) |->
     IF decks[i].id = deckId
     THEN [decks[i] EXCEPT !.cards =
             filter(decks[i].cards, { c \in Range(decks[i].cards) : c.id # cardId })]
     ELSE decks[i]]

\* "Delete" on a card of the Manage list, confirmed
DeleteCard ==
  /\ selectedDeck # 0
  /\ \E c \in Range(decks[selectedDeck].cards) :
        decks' = deleteCard(decks[selectedDeck].id, c.id)
  /\ UNCHANGED <<selectedDeckId, learnSession, clock, gradeCount, call, againsSince, quiz, session>>

\* Date.now() when the page is opened
StartTime == Ts(3, 0)

\* a day passes
Tick ==
  /\ clock.day < StartTime.day + MaxDays
  /\ clock' = TsAddDays(clock, 1)
  /\ UNCHANGED <<decks, selectedDeckId, learnSession, gradeCount, call, againsSince, quiz, session>>

\* The stored state the page is opened on (loadState), three days after the
\* first deck was made: card 11 untouched since its creation, card 12 graded
\* Good on day 0 and again on day 1 (so due on day 4), and a second deck just
\* added with no card in it.  The first deck is selected.
StoredDecks ==
  << [id |-> 1,
      cards |-> << NewCard(11, Epoch),
                   [NewCard(12, Epoch) EXCEPT !.reps = 2, !.interval = 3, !.ef = 234,
                                              !.due = Ts(4, 0), !.lastReviewed = Ts(1, 0)] >>],
     [id |-> 2, cards |-> << >>] >>

Init ==
  /\ decks = StoredDecks
  /\ selectedDeckId = 1
  /\ learnSession = NoSession
  /\ clock = StartTime
  /\ gradeCount = 0
  /\ call = NoCall
  /\ againsSince = [id \in { c.id : c \in AllCards(decks) } |-> 0]
  /\ quiz = NoQuiz
  /\ session = NoQuizSession

Next ==
  \/ StartLearn
  \/ Reveal
  \/ GradeLearn
  \/ ResetLearn
  \/ SelectDeck
  \/ Tick

Spec == Init /\ [][Next]_vars

---------------------------------------------------------------------------
(* The page with the deck panel in use as well: cards are added and the
   progress of the deck is reset before, between and during sessions.  The
   store holds one deck with one card not yet reviewed, so the deck buttons
   of the side bar change nothing, and the day does not change (the clock
   moves only while a grade is scheduled). *)

InitDeck ==
  /\ decks = << [id |-> 1, cards |-> << NewCard(11, Epoch) >>] >>
  /\ selectedDeckId = 1
  /\ learnSession = NoSession
  /\ clock = StartTime
  /\ gradeCount = 0
  /\ call = NoCall
  /\ againsSince = [id \in { c.id : c \in AllCards(decks) } |-> 0]
  /\ quiz = NoQuiz
  /\ session = NoQuizSession

NextDeck ==
  \/ StartLearn
  \/ Reveal
  \/ GradeLearn
  \/ ResetLearn
  \/ AddCard
  \/ ResetProgress

SpecDeck == InitDeck /\ [][NextDeck]_vars

---------------------------------------------------------------------------
(* The Learn panel with the Manage list in use as well: cards of the deck
   are edited and deleted before, between and during sessions.  The store
   holds one deck with one card not yet reviewed, and the day does not
   change. *)

InitManage ==
  /\ decks = << [id |-> 1, cards |-> << NewCard(11, Epoch) >>] >>
  /\ selectedDeckId = 1
  /\ learnSession = NoSession
  /\ clock = StartTime
  /\ gradeCount = 0
  /\ call = NoCall
  /\ againsSince = [id \in { c.id : c \in AllCards(decks) } |-> 0]
  /\ quiz = NoQuiz
  /\ session = NoQuizSession

NextManage ==
  \/ StartLearn
  \/ Reveal
  \/ GradeLearn
  \/ ResetLearn
  \/ EditCard
  \/ DeleteCard

SpecManage == InitManage /\ [][NextManage]_vars

---------------------------------------------------------------------------
(* Starting a session on its own: decks of every size up to MaxDeck, and one
   of SessionCap + 1 cards, with every split into due and not-due cards *)

MaxDeck == 5

\* n cards, card i due at the start time when duePattern[i], a day later otherwise
DeckOf(n, duePattern) ==
  [id |-> 1,
   cards |-> [i \in 1 .. n |->
                [NewCard(i, IF duePattern[i] THEN StartTime ELSE TsAddDays(StartTime, 1))
                   EXCEPT !.term = i % 3]]]

StartDecks ==
  UNION { { DeckOf(n, f) : f \in [1 .. n -> BOOLEAN] } : n \in 0 .. MaxDeck }
  \cup { DeckOf(SessionCap + 1, [i \in 1 .. SessionCap + 1 |-> TRUE]),
         DeckOf(SessionCap + 1, [i \in 1 .. SessionCap + 1 |-> FALSE]),
         DeckOf(SessionCap + 1, [i \in 1 .. SessionCap + 1 |-> i % 2 = 1]) }

InitStart ==
  /\ \E d \in StartDecks : decks = <<d>>
  /\ selectedDeckId = 1
  /\ learnSession = NoSession
  /\ clock = StartTime
  /\ gradeCount = 0
  /\ call = NoCall
  /\ againsSince = [id \in { c.id : c \in AllCards(decks) } |-> 0]
  /\ quiz = NoQuiz
  /\ session = NoQuizSession

NextStart ==
  \/ StartLearn
  \/ Reveal
  \/ ResetLearn
  \/ Tick

SpecStart == InitStart /\ [][NextStart]_vars

---------------------------------------------------------------------------
(* Sessions run to their end: decks of up to MaxRun cards and one of
   SessionCap + 1 cards, all due, with sessions started, graded and, once
   complete, started again; no session is ended before it is complete.
   SpecFinish is the same with a user who keeps revealing and grading
   whenever the page offers it. *)

MaxRun == 2

RunDecks ==
  { DeckOf(n, [i \in 1 .. n |-> TRUE]) : n \in 0 .. MaxRun }
  \cup { DeckOf(SessionCap + 1, [i \in 1 .. SessionCap + 1 |-> TRUE]) }

InitRun ==
  /\ \E d \in RunDecks : decks = <<d>>
  /\ selectedDeckId = 1
  /\ learnSession = NoSession
  /\ clock = StartTime
  /\ gradeCount = 0
  /\ call = NoCall
  /\ againsSince = [id \in { c.id : c \in AllCards(decks) } |-> 0]
  /\ quiz = NoQuiz
  /\ session = NoQuizSession

NextRun ==
  \/ StartLearn
  \/ Reveal
  \/ GradeLearn

SpecRun == InitRun /\ [][NextRun]_vars

SpecFinish == InitRun /\ [][NextRun]_vars /\ WF_vars(Reveal) /\ WF_vars(GradeLearn)

---------------------------------------------------------------------------
(* The scheduler on its own: one call of scheduleNext on a stored card *)

\* bounds of the cards handed to the scheduler
MaxRepsIn == 5
MaxIntervalIn == 20
MaxLapsesIn == 2

\* ease factors a stored card may hold, in hundredths; JSON can hold any number
EfInputs == {0 - 50, 0, 100, 125, 129, 130, 131, 134, 135, 150, 225, 230, 250,
             292, 293, 298, 299, 300, 305, 321, 1000}

Grades == 0 .. 3

SchedCards ==
  { [id |-> 1, term |-> 1, definition |-> 1, due |-> Epoch, ef |-> e, reps |-> r,
     interval |-> i, lapses |-> l, lastReviewed |-> null] :
       e \in EfInputs, r \in 0 .. MaxRepsIn, i \in 0 .. MaxIntervalIn,
       l \in 0 .. MaxLapsesIn }

InitSched ==
  /\ decks = << >>
  /\ selectedDeckId = 0
  /\ learnSession = NoSession
  /\ clock \in { Ts(0, 0), Ts(1, 0) }
  /\ gradeCount = 0
  /\ \E c \in SchedCards : call = [pc |-> "in", card |-> c]
  /\ againsSince = << >>
  /\ quiz = NoQuiz
  /\ session = NoQuizSession

ScheduleCall ==
  /\ call.pc = "in"
  /\ \E g \in Grades, d \in ClockDrift :
       /\ call' = [pc |-> "out", card |-> call.card, grade |-> g,
                   now1 |-> clock, now2 |-> TsAddMs(clock, d),
                   out |-> scheduleNext(call.card, g, clock, TsAddMs(clock, d))]
       /\ clock' = TsAddMs(clock, d)
  /\ UNCHANGED <<decks, selectedDeckId, learnSession, gradeCount, againsSince, quiz, session>>

NextSched == ScheduleCall

SpecSched == InitSched /\ [][NextSched]_vars

---------------------------------------------------------------------------
(* The scheduler called as JavaScript allows: the grade is a number that
   TypeScript alone keeps within 0 .. 3, and a card read from storage or
   from an imported file may lack any of its numeric fields *)

\* grades handed to scheduleNext, with values on both sides of 0 .. 3
GradeInputs == (0 - 1) .. 5

\* cards with ef, reps, interval or lapses missing (undefined) or present
LooseCards ==
  { [id |-> 1, term |-> 1, definition |-> 1, due |-> Ts(2, 0), ef |-> e, reps |-> r,
     interval |-> i, lapses |-> l, lastReviewed |-> null] :
       e \in {undefined, 130, 250, 300}, r \in {undefined, 0, 1, 2, 4},
       i \in {undefined, 0, 1, 6}, l \in {undefined, 0, 2} }

InitLoose ==
  /\ decks = << >>
  /\ selectedDeckId = 0
  /\ learnSession = NoSession
  /\ clock \in { Ts(0, 0), Ts(1, 0) }
  /\ gradeCount = 0
  /\ \E c \in LooseCards : call = [pc |-> "in", card |-> c]
  /\ againsSince = << >>
  /\ quiz = NoQuiz
  /\ session = NoQuizSession

ScheduleCallLoose ==
  /\ call.pc = "in"
  /\ \E g \in GradeInputs, d \in ClockDrift :
       /\ call' = [pc |-> "out", card |-> call.card, grade |-> g,
                   now1 |-> clock, now2 |-> TsAddMs(clock, d),
                   out |-> scheduleNext(call.card, g, clock, TsAddMs(clock, d))]
       /\ clock' = TsAddMs(clock, d)
  /\ UNCHANGED <<decks, selectedDeckId, learnSession, gradeCount, againsSince, quiz, session>>

NextLoose == ScheduleCallLoose

SpecLoose == InitLoose /\ [][NextLoose]_vars

---------------------------------------------------------------------------
(* normalizeQuestionSet of the one-question-at-a-time quiz
   (src/unnamed/part_000), one call on its own.  A question is
   [id, question, choices, answerIndex], the texts being numbers; the
   shuffle is the same Fisher-Yates loop as shuffleArray above. *)

\* choices per question
MaxChoices == 3

\* shuffled.findIndex((x) => x.idx === target): 0-based, -1 when there is none
findIndex(shuffled, target) ==
  IF \E i \in 1 .. Len(shuffled) : shuffled[i].idx = target
  THEN (CHOOSE i \in 1 .. Len(shuffled) :
          /\ shuffled[i].idx = target
          /\ \A k \in 1 .. i - 1 : shuffled[k].idx # target) - 1
  ELSE 0 - 1

\* the choices shuffled and the answer index left as it was
shuffleChoicesOf_keepIndex(q, picks) ==
  LET indexed  == [i \in 1 .. Len(q.choices) |-> [text |-> q.choices[i], idx |-> i - 1]]
      shuffled == shuffleArray(indexed, picks)
  IN  [q EXCEPT !.choices = [i \in 1 .. Len(shuffled) |-> shuffled[i].text]]

\* lines 91-97, for one question
shuffleChoicesOf(q, picks) ==
  LET indexed  == [i \in 1 .. Len(q.choices) |-> [text |-> q.choices[i], idx |-> i - 1]]
      shuffled == shuffleArray(indexed, picks)
  IN  [q EXCEPT !.choices = [i \in 1 .. Len(shuffled) |-> shuffled[i].text],
                !.answerIndex = findIndex(shuffled, q.answerIndex)]

\* lines 103-108, for the question at 0-based position i: q_1, q_2, ... are
\* written 1, 2, ...
ensureIds(q, i) ==
  [q EXCEPT !.id = IF q.id = undefined THEN i + 1 ELSE q.id,
            !.answerIndex = IF IsNumber(q.answerIndex) THEN q.answerIndex ELSE 0]

\* normalizeQuestionSet(qs, { shuffleQuestions, shuffleChoices }); picksC[k]
\* are the random numbers of the shuffle of question k's choices, picksQ
\* those of the shuffle of the questions
normalizeQuestionSet(qs, shuffleQuestions, shuffleChoices, picksC, picksQ) ==
  LET out1 == IF shuffleChoices
              THEN [k \in 1 .. Len(qs) |-> shuffleChoicesOf(qs[k], picksC[k])]
              ELSE qs
      out2 == IF shuffleQuestions THEN shuffleArray(out1, picksQ) ELSE out1
  IN  [k \in 1 .. Len(out2) |-> ensureIds(out2[k], k - 1)]

\* a second question of the set, always the same
OtherQuestion == [id |-> undefined, question |-> 2, choices |-> <<7, 8>>, answerIndex |-> 1]

\* the questions handed in: every list of 1 .. MaxChoices choice texts (texts
\* may repeat), every answer index from -1 to the length, or none
QuestionInputs ==
  UNION { { [id |-> i, question |-> 1, choices |-> c, answerIndex |-> a] :
              c \in [1 .. n -> 1 .. n], a \in ((0 - 1) .. n) \cup {undefined},
              i \in {undefined, 5} } :
          n \in 1 .. MaxChoices }

InitNormalize ==
  /\ decks = << >>
  /\ selectedDeckId = 0
  /\ learnSession = NoSession
  /\ clock = StartTime
  /\ gradeCount = 0
  /\ againsSince = << >>
  /\ quiz = NoQuiz
  /\ session = NoQuizSession
  /\ \E q \in QuestionInputs :
        call = [pc |-> "normalize in", qs |-> <<q, OtherQuestion>>]

NormalizeCall ==
  /\ call.pc = "normalize in"
  /\ \E sq \in BOOLEAN, sc \in BOOLEAN :
     \E p1 \in RandomPicks(Len(call.qs[1].choices)),
        p2 \in RandomPicks(Len(call.qs[2].choices)),
        pq \in RandomPicks(Len(call.qs)) :
        call' = [pc |-> "normalize out", qs |-> call.qs,
                 shuffleQuestions |-> sq, shuffleChoices |-> sc,
                 out |-> normalizeQuestionSet(call.qs, sq, sc, <<p1, p2>>, pq)]
  /\ UNCHANGED <<decks, selectedDeckId, learnSession, clock, gradeCount, againsSince, quiz, session>>

NextNormalize == NormalizeCall

SpecNormalize == InitNormalize /\ [][NextNormalize]_vars

---------------------------------------------------------------------------
(* PsychosocialOTQuizApp of src/unnamed/part_000: one question at a time.
   quiz holds the component's state (index, selected, submitted,
   correctCount, history, instantFeedback), the callbacks handed to
   setTimeout that have not run yet (timers, in the order they were set)
   and the number of options clicked so far (picks).  The question set is
   fixed: the shuffle settings and the import only change which questions
   there are, and every handler reads the question through questions[index]. *)

\* questions of the set
MaxQuizQuestions == 2
\* options clicked in one behaviour
MaxPicks == 3

\* questions[k]: two choices, the first one correct for odd ids
QuizQuestion(k) == [id |-> k, answerIndex |-> 1 - (k % 2)]

QuizTotal == MaxQuizQuestions

\* const q = questions[index]
CurrentQ == QuizQuestion(quiz.index + 1)

InitQuiz ==
  /\ decks = << >>
  /\ selectedDeckId = 0
  /\ learnSession = NoSession
  /\ clock = StartTime
  /\ gradeCount = 0
  /\ call = NoCall
  /\ againsSince = << >>
  /\ session = NoQuizSession
  /\ quiz = [app |-> "quiz", index |-> 0, selected |-> undefined, submitted |-> FALSE,
              correctCount |-> 0, history |-> << >>, instantFeedback |-> TRUE,
              timers |-> << >>, picks |-> 0]

QuizFrame ==
  UNCHANGED <<decks, selectedDeckId, learnSession, clock, gradeCount, call, againsSince,
              session>>

\* the history entry of a submit: the fields of the question and the choice
Entry(q, sel) == [id |-> q.id, answerIndex |-> q.answerIndex, selected |-> sel,
                  isCorrect |-> (sel = q.answerIndex)]

\* handleSelect(i), called by a choice button, which is disabled once the
\* question is submitted
HandleSelect ==
  /\ ~quiz.submitted
  /\ quiz.picks < MaxPicks
  /\ \E i \in 0 .. 1 :
        quiz' = [quiz EXCEPT
                   !.selected = i,
                   !.picks = @ + 1,
                   !.timers = IF quiz.instantFeedback
                              THEN Append(@, [i |-> i, q |-> CurrentQ])
                              ELSE @]
  /\ QuizFrame

\* lines 255-272: the history update of the setTimeout callback
autoHistory(h, q, i) ==
  IF \E k \in 1 .. Len(h) : h[k].id = q.id THEN h ELSE Append(h, Entry(q, i))

\* the callback of lines 251-273 runs, with the i and q of its handleSelect
TimerFires ==
  /\ quiz.timers # << >>
  /\ LET t == Head(quiz.timers)
     IN  quiz' = [quiz EXCEPT
                    !.timers = Tail(@),
                    !.submitted = TRUE,
                    !.correctCount = IF t.i = t.q.answerIndex THEN @ + 1 ELSE @,
                    !.history = autoHistory(@, t.q, t.i)]
  /\ QuizFrame

\* "Submit" is there with instant feedback off and is disabled with nothing
\* selected or the question submitted
SubmitShown == ~quiz.instantFeedback /\ quiz.selected # undefined /\ ~quiz.submitted

\* submit()
Submit ==
  /\ SubmitShown
  /\ quiz.selected # undefined /\ ~quiz.submitted
  /\ quiz' = [quiz EXCEPT
                 !.submitted = TRUE,
                 !.correctCount = IF quiz.selected = CurrentQ.answerIndex THEN @ + 1 ELSE @,
                 !.history = Append(@, Entry(CurrentQ, quiz.selected))]
  /\ QuizFrame

\* next(), "Next" being disabled unless submitted with a question to go to
NextQuestion ==
  /\ quiz.submitted /\ quiz.index + 1 < QuizTotal
  /\ quiz' = [quiz EXCEPT !.index = @ + 1, !.selected = undefined, !.submitted = FALSE]
  /\ QuizFrame

\* prevReview(i) from box i of the review list
PrevReview ==
  /\ \E i \in 0 .. QuizTotal - 1 :
        quiz' = [quiz EXCEPT !.index = clamp(i, 0, QuizTotal - 1),
                             !.selected = undefined, !.submitted = FALSE]
  /\ QuizFrame

\* restart()
Restart ==
  /\ quiz' = [quiz EXCEPT !.index = 0, !.selected = undefined, !.submitted = FALSE,
                           !.correctCount = 0, !.history = << >>]
  /\ QuizFrame

\* the "Instant feedback" checkbox
ToggleInstantFeedback ==
  /\ quiz' = [quiz EXCEPT !.instantFeedback = ~@]
  /\ QuizFrame

NextQuiz ==
  \/ HandleSelect
  \/ TimerFires
  \/ Submit
  \/ NextQuestion
  \/ PrevReview
  \/ Restart
  \/ ToggleInstantFeedback

SpecQuiz == InitQuiz /\ [][NextQuiz]_vars

---------------------------------------------------------------------------
(* The two quiz-session programs: the retry-loop quiz of src/unnamed/part_000
   (lines 530 on, app "retry") and the quiz of src/unnamed/part_001 (app
   "plain").  session holds the SessionState of the one that runs: the ids
   of config.questions, settings.shuffle, and of progress the order, the
   currentIndex, answersById (question id -> isCorrect of its attempt),
   retryVersionById and whether completedAt is set.  Question ids are
   1, 2, ... for "q1", "q2", ...; saveSession runs after every change, so
   the stored session is the session itself. *)

\* questions of a config
MaxSessionQuestions == 2
\* increments of retryVersionById in one behaviour
MaxRetries == 1

\* config.questions.map((q) => q.id) of a config of n questions
ConfigIds(n) == [k \in 1 .. n |-> k]

\* the configs assertConfigShape accepts: the questions array may be empty
AcceptedConfigs == { ConfigIds(n) : n \in 0 .. MaxSessionQuestions }

\* prev.settings.shuffle ? shuffleArray(baseOrder) : baseOrder
orderOf(baseOrder, shuffle, picks) ==
  IF shuffle THEN shuffleArray(baseOrder, picks) ELSE baseOrder

buildDefaultSession(app, config) ==
  [app |-> app, config |-> config, shuffle |-> TRUE, order |-> config,
   currentIndex |-> 0, answersById |-> << >>, retryVersionById |-> << >>,
   completed |-> FALSE]

\* order.filter((id) => cfg.questions.some((q) => q.id === id))
cleanOrderOf(order, cfg) == filter(order, Range(cfg))

\* the upper limit of currentIndex in loadSession: part_000 line 2195, part_001 line 193
loadLimit(app, finalOrder) ==
  IF app = "retry" THEN Max(Len(finalOrder) - 1, 0) ELSE Len(finalOrder) - 1

\* loadSession() on a stored session whose config passes assertConfigShape
loadSession(stored) ==
  LET cfg == stored.config
      order == IF stored.hasOrder THEN stored.order ELSE cfg
      cleanOrder == cleanOrderOf(order, cfg)
      missing == filter(cfg, Range(cfg) \ Range(cleanOrder))
      finalOrder == cleanOrder \o missing
      ci == IF IsNumber(stored.currentIndex) THEN stored.currentIndex ELSE 0
  IN  [app |-> stored.app, config |-> cfg, shuffle |-> stored.shuffle,
       order |-> finalOrder,
       currentIndex |-> Min(Max(ci, 0), loadLimit(stored.app, finalOrder)),
       answersById |-> stored.answersById,
       retryVersionById |-> stored.retryVersionById,
       completed |-> stored.completed]

\* JSON.stringify(session) as saveSession stores it
saved(s) ==
  [app |-> s.app, config |-> s.config, shuffle |-> s.shuffle, hasOrder |-> TRUE,
   order |-> s.order, currentIndex |-> s.currentIndex, answersById |-> s.answersById,
   retryVersionById |-> s.retryVersionById, completed |-> s.completed]

SessionFrame ==
  UNCHANGED <<decks, selectedDeckId, learnSession, clock, gradeCount, call, againsSince,
              quiz>>

\* const current = orderedQuestions[session.progress.currentIndex]: the
\* QuizCard with its buttons is rendered only when there is one
HasCurrent ==
  /\ session.currentIndex >= 0
  /\ session.currentIndex < Len(session.order)

currentId == session.order[session.currentIndex + 1]

\* isCorrectById.get(id) === true
isCorrectIn(answersById, id) ==
  IF id \in DOMAIN answersById THEN answersById[id] ELSE FALSE

\* the page is loaded again: useState(() => loadSession())
Reload ==
  /\ session' = loadSession(saved(session))
  /\ SessionFrame

\* applySettingsJson with a config that passes assertConfigShape
ApplyConfig ==
  /\ \E cfg \in AcceptedConfigs : \E picks \in RandomPicks(Len(cfg)) :
        session' = [session EXCEPT
                      !.config = cfg,
                      !.order = orderOf(cfg, session.shuffle, picks),
                      !.currentIndex = 0,
                      !.answersById = << >>,
                      !.retryVersionById = << >>,
                      !.completed = FALSE]
  /\ SessionFrame

\* "New session"
StartNewSession ==
  /\ \E picks \in RandomPicks(Len(session.config)) :
        session' = [session EXCEPT
                      !.order = orderOf(session.config, session.shuffle, picks),
                      !.currentIndex = 0,
                      !.answersById = << >>,
                      !.retryVersionById = << >>,
                      !.completed = FALSE]
  /\ SessionFrame

\* "Reset answers": resetAnswersKeepOrder of part_000, resetSession(true) of
\* part_001, which shuffles again
ResetAnswers ==
  /\ IF session.app = "retry"
     THEN session' = [session EXCEPT
                        !.currentIndex = 0,
                        !.answersById = << >>,
                        !.retryVersionById = << >>,
                        !.completed = FALSE]
     ELSE \E picks \in RandomPicks(Len(session.config)) :
            session' = [buildDefaultSession("plain", session.config) EXCEPT
                          !.shuffle = session.shuffle,
                          !.order = orderOf(session.config, session.shuffle, picks)]
  /\ SessionFrame

\* the "Shuffle" checkbox
ToggleShuffle ==
  /\ session' = [session EXCEPT !.shuffle = ~@]
  /\ SessionFrame

\* the upper limit of currentIndex in jumpTo: part_000 line 2301, part_001 line 333
jumpLimit(app, order) ==
  IF app = "retry" THEN Max(Len(order) - 1, 0) ELSE Len(order) - 1

\* jumpTo(index) from the "Jump" select of the card
JumpTo ==
  /\ HasCurrent
  /\ \E index \in 0 .. Len(session.order) - 1 :
        session' = [session EXCEPT
                      !.currentIndex = Min(Max(index, 0), jumpLimit(session.app, session.order))]
  /\ SessionFrame

\* goPrev(), "Previous" being disabled at index 0
GoPrev ==
  /\ HasCurrent
  /\ session.currentIndex # 0
  /\ session' = [session EXCEPT !.currentIndex = Max(0, @ - 1)]
  /\ SessionFrame

\* markMcq / markMatch on the current question; the choices are disabled
\* once it is answered correctly (part_000), once it is answered (part_001)
Mark ==
  /\ HasCurrent
  /\ IF session.app = "retry"
     THEN ~isCorrectIn(session.answersById, currentId)
     ELSE currentId \notin DOMAIN session.answersById
  /\ \E isCorrect \in BOOLEAN :
        session' = [session EXCEPT
                      !.answersById = spread(@, [x \in {currentId} |-> isCorrect])]
  /\ SessionFrame

\* the search of goNext that looks at the question after the current one only
nextNotCorrect_oneStep(s, step) ==
  (s.currentIndex + step) % Len(s.order)

\* the loop of part_000 lines 2338-2346, from step on
RECURSIVE nextNotCorrect(_, _)
nextNotCorrect(s, step) ==
  IF step > Len(s.order) THEN s.currentIndex
  ELSE LET idx == (s.currentIndex + step) % Len(s.order)
       IN  IF ~isCorrectIn(s.answersById, s.order[idx + 1]) THEN idx
           ELSE nextNotCorrect(s, step + 1)

\* rv[nextQid] = (rv[nextQid] ?? 0) + 1
bump(rv, id) ==
  spread(rv, [x \in {id} |-> IF id \in DOMAIN rv THEN rv[id] + 1 ELSE 1])

\* the sum of the retry versions
RECURSIVE RetrySum(_, _)
RetrySum(rv, ids) ==
  IF ids = {} THEN 0
  ELSE LET id == CHOOSE x \in ids : TRUE IN rv[id] + RetrySum(rv, ids \ {id})

\* goNext of part_000 on session s
goNextRetry(s) ==
  IF Len(s.order) = 0 THEN s
  ELSE IF \A k \in 1 .. Len(s.order) : isCorrectIn(s.answersById, s.order[k])
  THEN [s EXCEPT !.completed = TRUE]
  ELSE LET nextIndex == nextNotCorrect(s, 1)
           nextQid == s.order[nextIndex + 1]
           wrong == nextQid \in DOMAIN s.answersById /\ ~s.answersById[nextQid]
       IN  [s EXCEPT
              !.currentIndex = nextIndex,
              !.answersById = IF wrong
                              THEN [id \in DOMAIN @ \ {nextQid} |-> @[id]]
                              ELSE @,
              !.retryVersionById = IF wrong THEN bump(@, nextQid) ELSE @]

\* goNext of part_001 on session s
goNextPlain(s) ==
  LET nextIndex == Min(s.currentIndex + 1, Len(s.order) - 1)
  IN  [s EXCEPT
         !.currentIndex = nextIndex,
         !.completed = IF /\ nextIndex = Len(s.order) - 1
                          /\ Cardinality(DOMAIN s.answersById) = Len(s.order)
                       THEN TRUE ELSE @]

\* "Next" is disabled with total === 0 (part_000), at the last question (part_001)
NextShown ==
  /\ HasCurrent
  /\ IF session.app = "retry" THEN Len(session.order) # 0
     ELSE session.currentIndex # Len(session.order) - 1

GoNext ==
  /\ NextShown
  /\ session' = IF session.app = "retry" THEN goNextRetry(session) ELSE goNextPlain(session)
  /\ session.app = "retry" => RetrySum(session'.retryVersionById, DOMAIN session'.retryVersionById) <= MaxRetries
  /\ SessionFrame

InitSessionOf(app) ==
  /\ decks = << >>
  /\ selectedDeckId = 0
  /\ learnSession = NoSession
  /\ clock = StartTime
  /\ gradeCount = 0
  /\ call = NoCall
  /\ againsSince = << >>
  /\ quiz = NoQuiz
  /\ session = buildDefaultSession(app, ConfigIds(MaxSessionQuestions))

NextSession ==
  \/ Reload
  \/ ApplyConfig
  \/ StartNewSession
  \/ ResetAnswers
  \/ ToggleShuffle
  \/ JumpTo
  \/ GoPrev
  \/ Mark
  \/ GoNext

\* the retry-loop quiz of part_000
InitRetry == InitSessionOf("retry")

SpecRetry == InitRetry /\ [][NextSession]_vars

\* the quiz of part_001
InitPlain == InitSessionOf("plain")

SpecPlain == InitPlain /\ [][NextSession]_vars

---------------------------------------------------------------------------
(* loadSession of both quiz-session programs on a stored session: call
   holds the content of localStorage before the call and the session
   returned after it.  The stored config passes assertConfigShape (the call
   returns the default session otherwise); the stored order is any array of
   ids, known or unknown, or no array. *)

\* ids that a stored order array draws from
MaxStoredId == 3
\* length of a stored order array
MaxStoredOrder == 3

StoredOrders ==
  UNION { [1 .. n -> 1 .. MaxStoredId] : n \in 0 .. MaxStoredOrder }

StoredSessions ==
  { [app |-> app, config |-> cfg, shuffle |-> TRUE, hasOrder |-> hasOrder,
     order |-> order, currentIndex |-> ci, answersById |-> << >>,
     retryVersionById |-> << >>, completed |-> FALSE] :
      app \in {"retry", "plain"}, cfg \in AcceptedConfigs, hasOrder \in BOOLEAN,
      order \in StoredOrders, ci \in {undefined, 0 - 1, 0, 1, MaxStoredOrder} }

InitLoad ==
  /\ decks = << >>
  /\ selectedDeckId = 0
  /\ learnSession = NoSession
  /\ clock = StartTime
  /\ gradeCount = 0
  /\ againsSince = << >>
  /\ quiz = NoQuiz
  /\ session = NoQuizSession
  /\ \E stored \in StoredSessions : call = [pc |-> "loadSession in", stored |-> stored]

\* useState(() => loadSession())
LoadSessionCall ==
  /\ call.pc = "loadSession in"
  /\ call' = [pc |-> "loadSession out", stored |-> call.stored,
              out |-> loadSession(call.stored)]
  /\ UNCHANGED <<decks, selectedDeckId, learnSession, clock, gradeCount, againsSince,
                 quiz, session>>

NextLoad == LoadSessionCall

SpecLoad == InitLoad /\ [][NextLoad]_vars

---------------------------------------------------------------------------
(* Properties of the scheduler, stated over a finished call *)

Returned == call.pc = "out"

\* x brought into [1.3, 3.0], written out
Into13to30(x) == IF x < 130 THEN 130 ELSE IF x > 300 THEN 300 ELSE x

\* the change of ef a grade asks for: -0.2, -0.05, +0.02, +0.08
EfDelta(g) == IF g = 0 THEN 0 - 20 ELSE IF g = 1 THEN 0 - 5 ELSE IF g = 2 THEN 2 ELSE 8

\* 1.15, 1.35, 1.7
Multiplier(g) == IF g = 1 THEN 115 ELSE IF g = 2 THEN 135 ELSE 170

\* k = max(1, round(p / 10000)): k - 0.5 <= p / 10000 < k + 0.5, or k = 1 below that
IsMax1Round(k, p) ==
  \/ k = 1 /\ 2 * p < 30000
  \/ k >= 1 /\ (2 * k - 1) * 10000 <= 2 * p /\ 2 * p < (2 * k + 1) * 10000

C2_EfClampedIntervalPositive ==
  Returned =>
     /\ call.out.ef >= 130 /\ call.out.ef <= 300
     /\ (call.grade \in 1 .. 3 => call.out.interval >= 1)

\* an ef far above the range is brought back to 3.0, and a zero interval
\* at the third review still gives a day
C2_Witness ==
  /\ Returned /\ call.grade = 3
  /\ call.card.ef = 1000 /\ call.out.ef = 300
  /\ call.card.reps = 2 /\ call.card.interval = 0 /\ call.out.interval = 1

\* C3: a Hard, Good or Easy grade increments reps by exactly 1, sets ef to
\* clamp(ef - 0.05), clamp(ef + 0.02) or clamp(ef + 0.08) and leaves lapses
\* unchanged.
C3_SuccessUpdatesRepsAndEf ==
  (Returned /\ call.grade \in 1 .. 3) =>
     /\ call.out.reps = call.card.reps + 1
     /\ call.out.ef = Into13to30(call.card.ef + EfDelta(call.grade))
     /\ call.out.lapses = call.card.lapses

\* Scenario A: a fresh card with ef 2.3 graded Good gets reps 1, ef 2.32
C3_Witness ==
  /\ Returned /\ call.grade = 2
  /\ call.card.reps = 0 /\ call.card.interval = 0 /\ call.card.ef = 230
  /\ call.out.reps = 1 /\ call.out.ef = 232 /\ call.out.interval = 1

\* C4: after Hard, Good or Easy the interval is 1 when the new reps is 1;
\* 2 for Hard and 3 otherwise when it is 2; and
\* max(1, round(previous interval * new ef * multiplier)) when it is 3 or
\* more, the ef being the one after the grade.
C4_IntervalRule ==
  (Returned /\ call.grade \in 1 .. 3) =>
     LET newReps == call.card.reps + 1
         postEf  == Into13to30(call.card.ef + EfDelta(call.grade))
     IN  /\ newReps = 1 => call.out.interval = 1
         /\ newReps = 2 => call.out.interval = (IF call.grade = 1 THEN 2 ELSE 3)
         /\ newReps >= 3 =>
              IsMax1Round(call.out.interval,
                          call.card.interval * postEf * Multiplier(call.grade))

\* Scenario B: reps 2, interval 3, ef 2.3 graded Hard gives ef 2.25, interval 8
C4_Witness ==
  /\ Returned /\ call.grade = 1
  /\ call.card.reps = 2 /\ call.card.interval = 3 /\ call.card.ef = 230
  /\ call.out.reps = 3 /\ call.out.ef = 225 /\ call.out.interval = 8
  /\ call.out.due = TsAddDays(call.now1, 8)

\* C5: every timestamp one grading event writes derives from a single now:
\* lastReviewed = now, and due = now + interval' days (due = now after Again).
C5_SingleNow ==
  Returned =>
     \E now \in {call.now1, call.now2} :
        /\ call.out.lastReviewed = now
        /\ call.out.due = TsAddDays(now, call.out.interval)

---------------------------------------------------------------------------
(* Properties of the learn session *)

\* the scheduling fields of a card
SchedFields(c) == <<c.due, c.ef, c.reps, c.interval, c.lapses, c.lastReviewed>>

\* the stored card with this identifier, in whichever deck holds it
StoredCards(id) ==
  { c \in UNION { Range(decks[i].cards) : i \in 1 .. Len(decks) } : c.id = id }

\* C6: grade is accepted only when a session is in progress, a current card
\* exists and the card has been revealed: no grading step is taken while the
\* current card is unflipped, so the session and the stored cards stay as
\* they are.
C6_GradeOnlyWhenFlipped ==
  [][GradeLearn =>
       /\ learnSession.active
       /\ learnSession.idx < learnSession.total
       /\ learnSession.flipped]_vars

\* in progress on the second card, not yet revealed, after an accepted
\* grade of the first and with the model still allowing another grade
C6_Witness ==
  /\ CardShown
  /\ ~learnSession.flipped
  /\ learnSession.graded = 1 /\ learnSession.idx = 1
  /\ gradeCount < MaxGrades

\* C7: every accepted grade persists the scheduler's result to the card
\* collection that owns the graded card: right after the grade, the stored
\* card with that identifier carries the scheduling fields the scheduler
\* computed, whatever deck is selected by then.
C7_GradePersistsToOwner ==
  [][\A g \in 0 .. 3, d \in 0 .. 1 :
       (GradeButtonsShown /\ gradeLearn(g, d)) =>
          LET card    == learnSession.queue[learnSession.idx + 1]
              updated == scheduleNext(card, g, clock, TsAddMs(clock, d))
          IN  \A i \in 1 .. Len(decks) : \A k \in 1 .. Len(decks[i].cards) :
                 decks[i].cards[k].id = card.id =>
                    SchedFields(decks'[i].cards[k]) = SchedFields(updated)]_vars

\* C8: an accepted grade advances idx by exactly 1, increments graded by
\* exactly 1, resets flipped to false and leaves the queue, total and
\* startedAt unchanged (a card graded Again is not put back into the queue).
C8_GradeAdvancesOnly ==
  [][GradeLearn =>
       /\ learnSession'.active
       /\ learnSession'.idx = learnSession.idx + 1
       /\ learnSession'.graded = learnSession.graded + 1
       /\ learnSession'.flipped = FALSE
       /\ learnSession'.queue = learnSession.queue
       /\ learnSession'.total = learnSession.total
       /\ learnSession'.startedAt = learnSession.startedAt]_vars

\* the first card of a two-card session was graded Again: it is stored as
\* lapsed and the queue still holds two cards
C8_Witness ==
  /\ learnSession.active
  /\ learnSession.idx = 1 /\ learnSession.graded = 1 /\ ~learnSession.flipped
  /\ Len(learnSession.queue) = 2 /\ learnSession.total = 2
  /\ \E c \in StoredCards(learnSession.queue[1].id) :
        c.reps = 0 /\ c.lapses = 1 /\ c.lastReviewed # null

\* the card was due when the session started
DueAtStart(c) == TsLeq(c.due, learnSession.startedAt)

\* C9: start builds the queue with the due group first: for every pair of
\* queue positions i < j, if the card at j was due at start time then the
\* card at i was due too.
C9_DueGroupFirst ==
  learnSession.active =>
     \A i, j \in 1 .. Len(learnSession.queue) :
        (i < j /\ DueAtStart(learnSession.queue[j])) => DueAtStart(learnSession.queue[i])

\* Scenario D: 3 due and 2 not-due cards give a queue of 5 with the due cards
\* in positions 0..2, here in an order the deck does not have
C9_Witness ==
  /\ learnSession.active
  /\ Len(decks[1].cards) = 5
  /\ Len(learnSession.queue) = 5
  /\ \A i \in 1 .. 3 : DueAtStart(learnSession.queue[i])
  /\ \A i \in 4 .. 5 : ~DueAtStart(learnSession.queue[i])
  /\ learnSession.queue[1].id = 5 /\ learnSession.queue[5].id = 3
  /\ learnSession.graded = 0

\* C10: after start on a deck of n cards with distinct identifiers the queue
\* holds exactly min(50, n) cards of that deck, none twice, and the session
\* has idx = 0, graded = 0, flipped = false and total = queue length.
C10_StartInitialises ==
  [][StartLearn =>
       LET cards == decks[selectedDeck].cards
           q     == learnSession'.queue
       IN  /\ learnSession'.active
           /\ Len(q) = (IF Len(cards) < 50 THEN Len(cards) ELSE 50)
           /\ \A i \in 1 .. Len(q) : \E k \in 1 .. Len(cards) : cards[k] = q[i]
           /\ \A i, j \in 1 .. Len(q) : i # j => q[i].id # q[j].id
           /\ learnSession'.idx = 0
           /\ learnSession'.graded = 0
           /\ learnSession'.flipped = FALSE
           /\ learnSession'.total = Len(q)]_vars

\* a deck of 51 cards gives a queue of 50
C10_Witness ==
  /\ learnSession.active
  /\ Len(decks[1].cards) = 51
  /\ Len(learnSession.queue) = 50
  /\ learnSession.total = 50 /\ learnSession.idx = 0 /\ learnSession.graded = 0
  /\ ~learnSession.flipped

\* g holds cards of the deck in the order the deck has them
InDeckOrder(g, cards) ==
  \A a, b \in 1 .. Len(g) :
     a < b => \E i, j \in 1 .. Len(cards) : i < j /\ cards[i] = g[a] /\ cards[j] = g[b]

\* C11: the due selector of start puts a card into the due group exactly
\* when its due is at or before now and into the not-due group otherwise;
\* every card of the deck is in exactly one of the two groups, once, and
\* each group keeps the cards in the order of the deck.
C11_DuePartition ==
  learnSession.active =>
     LET cards  == decks[selectedDeck].cards
         now    == learnSession.startedAt
         due    == dueGroup(cards, now)
         notDue == notDueGroup(cards, now)
     IN  /\ \A i \in 1 .. Len(due) : TsLeq(due[i].due, now)
         /\ \A i \in 1 .. Len(notDue) : ~TsLeq(notDue[i].due, now)
         /\ Len(due) + Len(notDue) = Len(cards)
         /\ \A k \in 1 .. Len(cards) :
               Cardinality({ i \in 1 .. Len(due) : due[i] = cards[k] })
                 + Cardinality({ i \in 1 .. Len(notDue) : notDue[i] = cards[k] }) = 1
         /\ InDeckOrder(due, cards)
         /\ InDeckOrder(notDue, cards)

\* a session started a day on, on five cards of which the second and the
\* fourth fall due at that very millisecond: all five are due, in deck order
C11_Witness ==
  /\ learnSession.active
  /\ learnSession.startedAt = TsAddDays(StartTime, 1)
  /\ Len(decks[1].cards) = 5
  /\ decks[1].cards[2].due = learnSession.startedAt
  /\ decks[1].cards[4].due = learnSession.startedAt
  /\ decks[1].cards[1].due = StartTime
  /\ dueGroup(decks[1].cards, learnSession.startedAt) = decks[1].cards
  /\ notDueGroup(decks[1].cards, learnSession.startedAt) = << >>
  /\ dueGroup(decks[1].cards, StartTime)
       = << decks[1].cards[1], decks[1].cards[3], decks[1].cards[5] >>
  /\ notDueGroup(decks[1].cards, StartTime) = << decks[1].cards[2], decks[1].cards[4] >>

\* the session is complete: idx has reached total
Completed ==
  IF learnSession.active THEN learnSession.idx >= learnSession.total ELSE FALSE

\* C12: once idx has reached total the session is complete and stays as it
\* is: no reveal and no grade is taken from a complete session (gradeLearn
\* called with any grade does nothing), so idx, graded, flipped, the queue
\* and the stored cards are not changed by them; the session changes only
\* by being started again or ended.
C12_CompletedRejects ==
  [][Completed =>
       /\ ~Reveal
       /\ ~GradeLearn
       /\ \A g \in 0 .. 3, d \in ClockDrift : ~gradeLearn(g, d)
       /\ (learnSession' # learnSession => StartLearn \/ ResetLearn)]_vars

\* both cards of deck 1 have been graded: the session is complete
C12_Witness ==
  /\ Completed
  /\ learnSession.total = 2 /\ learnSession.idx = 2 /\ learnSession.graded = 2
  /\ ~learnSession.flipped
  /\ gradeCount = 2

\* C13: reveal acts only on a session in progress whose current card is not
\* flipped; it sets flipped to true and changes nothing else of the session,
\* no stored card and no selection.  With the card flipped already, with no
\* current card or with no session there is no reveal step.
C13_RevealOnlyFlips ==
  [][Reveal =>
       /\ learnSession.active
       /\ learnSession.idx < learnSession.total
       /\ ~learnSession.flipped
       /\ learnSession'.flipped
       /\ learnSession' = [learnSession EXCEPT !.flipped = TRUE]
       /\ decks' = decks
       /\ selectedDeckId' = selectedDeckId
       /\ clock' = clock]_vars

\* the second card of the session has been revealed after the first was graded
C13_Witness ==
  /\ learnSession.active
  /\ learnSession.idx = 1 /\ learnSession.graded = 1 /\ learnSession.total = 2
  /\ learnSession.flipped

\* C14: end is accepted from every state: it can be taken whenever there is
\* a session, in progress or complete, and it leaves no active session
\* (with no session there is none to end and none after); it changes no
\* stored card, so the cards graded keep what the grades stored and the
\* cards not reached keep what they held before the session.
C14_EndAlwaysAccepted ==
  /\ [](learnSession.active => ENABLED ResetLearn)
  /\ [][ResetLearn =>
          /\ learnSession' = NoSession
          /\ decks' = decks
          /\ selectedDeckId' = selectedDeckId]_vars
  /\ [][(~learnSession.active /\ learnSession'.active) => StartLearn]_vars

\* a session on deck 1 ended after one grade: the graded card is stored as
\* reviewed, the other one is as it was before the session
C14_Witness ==
  /\ ~learnSession.active
  /\ gradeCount = 1
  /\ \E c \in StoredCards(11) : c.lastReviewed # null /\ c.reps = 1 /\ c.interval = 1
  /\ \E c \in StoredCards(12) : c = StoredDecks[1].cards[2]

\* C15: a grade outside 0 .. 3 is rejected by the scheduler: no updated card
\* comes of it, so reps, ef, interval and due are those of the card given
\* and the value is not taken for one of the four grades.
C15_BadGradeRejected ==
  (Returned /\ call.grade \notin 0 .. 3) =>
     /\ call.out.reps = call.card.reps
     /\ call.out.ef = call.card.ef
     /\ call.out.interval = call.card.interval
     /\ call.out.due = call.card.due

\* the card with every missing numeric field given its default: ef 2.3,
\* reps 0, interval 0, lapses 0
Defaulted(c) ==
  [c EXCEPT !.ef       = IF IsNumber(c.ef) THEN c.ef ELSE 230,
            !.reps     = IF IsNumber(c.reps) THEN c.reps ELSE 0,
            !.interval = IF IsNumber(c.interval) THEN c.interval ELSE 0,
            !.lapses   = IF IsNumber(c.lapses) THEN c.lapses ELSE 0]

\* C16: with ef, reps, interval or lapses missing, a grade of 0 .. 3 gives
\* the card that the same grade gives with the defaults (2.3, 0, 0, 0) in
\* place of the missing fields, and the card returned holds a number in
\* each of the four fields.
C16_DefaultsSubstituted ==
  (Returned /\ call.grade \in 0 .. 3) =>
     /\ call.out = scheduleNext(Defaulted(call.card), call.grade, call.now1, call.now2)
     /\ IsNumber(call.out.ef)
     /\ IsNumber(call.out.reps)
     /\ IsNumber(call.out.interval)
     /\ IsNumber(call.out.lapses)

\* C17: for every card with reps >= 2, interval >= 0 and ef in [1.3, 3.0],
\* the interval that Easy gives is at least the interval that Hard gives on
\* the same card at the same moment.
C17_EasyNotBelowHard ==
  (/\ Returned /\ call.grade = 3
   /\ call.card.reps >= 2 /\ call.card.interval >= 0
   /\ call.card.ef >= 130 /\ call.card.ef <= 300) =>
     call.out.interval >= scheduleNext(call.card, 1, call.now1, call.now2).interval

\* reps 2, interval 3, ef 2.3: Easy gives round(3 * 2.38 * 1.7) = 12 days
\* where Hard gives round(3 * 2.25 * 1.15) = 8
C17_Witness ==
  /\ Returned /\ call.grade = 3
  /\ call.card.reps = 2 /\ call.card.interval = 3 /\ call.card.ef = 230
  /\ call.out.interval = 12
  /\ scheduleNext(call.card, 1, call.now1, call.now2).interval = 8

\* C18: in every state reached by adding cards, running sessions with any
\* grades and resetting progress, every stored card has interval = 0
\* exactly when it has reps = 0.
C18_IntervalZeroIffRepsZero ==
  \A c \in AllCards(decks) : (c.interval = 0) <=> (c.reps = 0)

\* three kinds of card side by side: one just added (reps 0, interval 0),
\* and the first card reviewed twice, by now at reps 2 with 2 or 3 days
C18_Witness ==
  /\ gradeCount = 2
  /\ \E c \in AllCards(decks) : c.id # 11 /\ c.reps = 0 /\ c.interval = 0
  /\ \E c \in AllCards(decks) : c.id = 11 /\ c.reps = 2 /\ c.interval \in 2 .. 3

C20_LapsesCountAgains ==
  \A c \in AllCards(decks) : c.lapses = againsSince[c.id]

\* C21: a grade changes only the scheduling fields of the stored cards: the
\* identifier, term and definition of every stored card after the grade
\* are those the store held just before it, also for a card edited after
\* the session was started.
C21_GradeKeepsContent ==
  [][GradeLearn =>
       /\ Len(decks') = Len(decks)
       /\ \A i \in 1 .. Len(decks) :
             /\ Len(decks'[i].cards) = Len(decks[i].cards)
             /\ \A k \in 1 .. Len(decks[i].cards) :
                   /\ decks'[i].cards[k].id = decks[i].cards[k].id
                   /\ decks'[i].cards[k].term = decks[i].cards[k].term
                   /\ decks'[i].cards[k].definition = decks[i].cards[k].definition]_vars

\* the identifiers of the cards of a deck
DeckCardIds(d) == { c.id : c \in Range(d.cards) }

\* C27: grading a queued card that was deleted from the deck after the
\* session started does not bring it back: every grade leaves the set of
\* card identifiers of every deck as it was, and the session position
\* advances all the same.
C27_GradeKeepsCardIds ==
  [][GradeLearn =>
       /\ Len(decks') = Len(decks)
       /\ \A i \in 1 .. Len(decks) : DeckCardIds(decks'[i]) = DeckCardIds(decks[i])
       /\ learnSession'.idx = learnSession.idx + 1
       /\ learnSession'.graded = learnSession.graded + 1]_vars

\* the one card of the deck was deleted during the session and then graded:
\* the deck is still empty and the session has moved past the card
C27_Witness ==
  /\ learnSession.active
  /\ learnSession.total = 1 /\ learnSession.idx = 1 /\ learnSession.graded = 1
  /\ learnSession.queue[1].id = 11
  /\ gradeCount = 1
  /\ decks[1].cards = << >>

\* C25: in every reachable state with an active session, graded = idx,
\* 0 <= idx <= total, total is the length of the queue and total <= 50.
C25_SessionInvariant ==
  learnSession.active =>
     /\ learnSession.graded = learnSession.idx
     /\ 0 <= learnSession.idx
     /\ learnSession.idx <= learnSession.total
     /\ learnSession.total = Len(learnSession.queue)
     /\ learnSession.total <= 50

\* two cards graded in a session on 51 cards: the queue holds 50
C25_Witness ==
  /\ learnSession.active
  /\ Len(decks[1].cards) = 51
  /\ learnSession.total = 50 /\ Len(learnSession.queue) = 50
  /\ learnSession.idx = 2 /\ learnSession.graded = 2

\* grades still needed to complete the session
GradesLeft == learnSession.total - learnSession.idx

\* C26: a session always finishes.  Within a session no step lowers idx and
\* every grade raises it by one; a session started on n cards has
\* total = min(50, n) and is complete exactly when graded = total, so after
\* exactly min(50, n) grades; started on an empty deck it is complete at
\* once with graded = 0; and with a user who keeps revealing and grading,
\* every session that the grades explored suffice for does get complete.
C26_SessionFinishes ==
  /\ [][(learnSession.active /\ learnSession'.active /\ ~StartLearn) =>
          learnSession'.idx >= learnSession.idx]_vars
  /\ [][GradeLearn => learnSession'.idx = learnSession.idx + 1]_vars
  /\ [][StartLearn =>
          /\ learnSession'.total = Min(50, Len(decks[selectedDeck].cards))
          /\ (Len(decks[selectedDeck].cards) = 0 =>
                 learnSession'.idx >= learnSession'.total /\ learnSession'.graded = 0)]_vars
  /\ [](learnSession.active => (Completed <=> learnSession.graded = learnSession.total))
  /\ ((IF learnSession.active THEN gradeCount + GradesLeft <= MaxGrades ELSE FALSE)
        ~> Completed)

\* a session on two cards, complete after two grades
C26_Witness ==
  /\ Completed
  /\ Len(decks[1].cards) = 2
  /\ learnSession.total = 2 /\ learnSession.graded = 2
  /\ learnSession.startedAt = StartTime
  /\ \A c \in AllCards(decks) : c.lastReviewed # null

\* how often text t occurs in the list c
Occurrences(c, t) == Cardinality({ i \in 1 .. Len(c) : c[i] = t })

\* C24: normalizeQuestionSet keeps the answer when it shuffles choices: for
\* every question handed in whose answerIndex is an index of its choices,
\* the choices returned are a permutation of the choices given and the
\* choice at the returned answerIndex is the one that was at the given
\* answerIndex.
C24_AnswerFollowsShuffle ==
  call.pc = "normalize out" =>
     \A k \in 1 .. Len(call.qs) :
        LET q == call.qs[k]
        IN  (IsNumber(q.answerIndex) /\ q.answerIndex \in 0 .. Len(q.choices) - 1) =>
               \E m \in 1 .. Len(call.out) :
                  LET o == call.out[m]
                  IN  /\ o.question = q.question
                      /\ Len(o.choices) = Len(q.choices)
                      /\ \A t \in Range(q.choices) \cup Range(o.choices) :
                            Occurrences(o.choices, t) = Occurrences(q.choices, t)
                      /\ o.answerIndex \in 0 .. Len(o.choices) - 1
                      /\ o.choices[o.answerIndex + 1] = q.choices[q.answerIndex + 1]

\* three different choices with the answer first: after the shuffle the
\* answer is last, and the question has changed places with the other one
C24_Witness ==
  /\ call.pc = "normalize out"
  /\ call.shuffleChoices /\ call.shuffleQuestions
  /\ call.qs[1].choices = <<1, 2, 3>> /\ call.qs[1].answerIndex = 0
  /\ call.out[2].question = 1
  /\ call.out[2].choices[3] = 1 /\ call.out[2].answerIndex = 2

\* C23: the answer history never holds two entries for the same question
\* id, whatever options are selected (two selections whose callbacks both
\* run included), whatever is submitted by hand, whichever review box is
\* clicked and however instant feedback is switched.
C23_HistoryOncePerQuestion ==
  \A i, k \in 1 .. Len(quiz.history) :
     i # k => quiz.history[i].id # quiz.history[k].id

\* C30: the score shown is consistent: correctCount is at most the number
\* of history entries and at most the number of different questions
\* answered.
C30_ScoreConsistent ==
  /\ quiz.correctCount <= Len(quiz.history)
  /\ quiz.correctCount <= Cardinality({ quiz.history[i].id : i \in 1 .. Len(quiz.history) })

\* the positions from the one after the current position round to position
\* p, p left out: (cur + 1) % n, (cur + 2) % n, ...
Between(cur, p, n) ==
  { (cur + t) % n : t \in 1 .. ((p - cur - 1 + n) % n) }

\* C22: in the retry-loop quiz, while some question of the order is
\* unanswered or answered incorrectly, goNext leaves completedAt as it is
\* and moves currentIndex to the cyclically next such question after the
\* current position: that question was not answered correctly, and every
\* question passed on the way round to it (the wrap to the start and the
\* way back to the current position included) was.
C22_GoNextRetriesMissed ==
  [][(/\ session.app = "retry"
      /\ GoNext
      /\ \E k \in 1 .. Len(session.order) :
           ~isCorrectIn(session.answersById, session.order[k]))
     => (/\ session'.completed = session.completed
         /\ session'.currentIndex \in 0 .. Len(session.order) - 1
         /\ ~isCorrectIn(session.answersById, session.order[session'.currentIndex + 1])
         /\ \A p \in Between(session.currentIndex, session'.currentIndex, Len(session.order)) :
              isCorrectIn(session.answersById, session.order[p + 1]))]_vars

\* goNext has come round to the first question for a retry (its wrong
\* attempt was cleared and its retry version raised) past a question that
\* is answered correctly, and the session is not completed
C22_Witness ==
  /\ session.app = "retry"
  /\ Len(session.order) = 2
  /\ session.currentIndex = 0
  /\ session.order[1] \in DOMAIN session.retryVersionById
  /\ session.order[1] \notin DOMAIN session.answersById
  /\ isCorrectIn(session.answersById, session.order[2])
  /\ ~session.completed

\* C29: in both quiz-session apps progress.currentIndex is never negative
\* and never above max(order.length - 1, 0), after loadSession, jumpTo,
\* goPrev, goNext and a new config, the config with no questions included.
C29_CurrentIndexInRange ==
  session.app # "none" =>
    /\ session.currentIndex >= 0
    /\ session.currentIndex <= Max(Len(session.order) - 1, 0)

\* C28: after loadSession the order holds every question id of the config
\* exactly once and no other id, for every stored order array: one with
\* repeated ids, with unknown ids or with ids missing included.
C28_LoadedOrderIsPermutation ==
  call.pc = "loadSession out" =>
    /\ Range(call.out.order) = Range(call.out.config)
    /\ \A id \in Range(call.out.config) : Occurrences(call.out.order, id) = 1

====
